---- MODULE Spec2Model ----
(***************************************************************************)
(* Model of the quiz feature: QuizGenerator.parse_quiz, the line-oriented   *)
(* parser that turns the generation service's free text into a list of     *)
(* multiple-choice question records, QuizGenerator.generate_quiz, which     *)
(* calls the service and retries on rate limits (src/quiz_generator.py),   *)
(* the quiz session and the document processing of DocumentAnalyzerApp     *)
(* (src/main.py), and QASystem.get_answer with its link helpers            *)
(* (src/qa_chain.py).                                                      *)
(*                                                                         *)
(* A Python str is a sequence of one-character strings, a list is a        *)
(* sequence, and a dict is a function whose domain is its set of keys (the *)
(* empty dict is the function with the empty domain).                      *)
(***************************************************************************)
EXTENDS Integers, Sequences, FiniteSets, TLC

VARIABLES
    response_text,  \* the argument of the parse_quiz call in progress
    lines,          \* parse_quiz: the stripped, non-empty lines (line 82)
    idx,            \* parse_quiz: position of the for loop in lines (line 85)
    questions,      \* parse_quiz: the accumulated records (line 78)
    current_q,      \* parse_quiz: the record being filled (line 79)
    pc,             \* "call", "loop", "returned" or "raised"
    result,         \* the list parse_quiz returned (read only when pc = "returned")
    exc,            \* the exception parse_quiz raised ("none" if none)
    history,        \* the finished parse_quiz calls of this QuizGenerator
    gq_pc,          \* generate_quiz: "idle", "split", "attempt", "returned", "returned_none", "raised"
    attempt,        \* generate_quiz: the loop variable of line 49
    calls,          \* generate_quiz: the generate_content calls made so far
    waits,          \* generate_quiz: the time.sleep arguments so far, in order
    errors,         \* generate_quiz: str(e) of the exceptions caught at line 59, in order
    parses,         \* generate_quiz: the parse_quiz calls made so far
    gq_response,    \* generate_quiz: response.text of the last successful call
    gq_value,       \* what generate_quiz returned (read only when gq_pc = "returned")
    gq_exc,         \* the exception type that left generate_quiz ("none" if none)
    quiz_is_none,   \* session: quiz["quiz"] is None (no quiz generated yet)
    quiz,           \* session: quiz["quiz"] (<<>> while it is None)
    current_question, \* session: quiz["current_question"]
    user_answers,   \* session: quiz["user_answers"]
    picked,         \* for each question, the index (0..3) of the option the user
                    \* selected for it when pressing Next (-1 while there is none)
    shown,          \* what the last script run put on the page
    score,          \* the number of correct answers the last run displayed
                    \* (0 when it displayed no results)
    clicked,        \* the button whose press started the last run ("none" at first)
    frames,         \* concurrent parse_quiz calls: for each thread, the call's
                    \* argument, lines, loop position, pc, result and exception
    acc,            \* for each thread, the locals questions and current_q of its
                    \* call; slot 0 stands for the fields of the QuizGenerator
    qa_pc,          \* get_answer: "idle", "search", "youtube", "web", "combine",
                    \* "answer", "returned" or "raised"
    yt_links,       \* get_answer: what _get_youtube_links returned (line 26)
    web_links,      \* get_answer: what _get_web_links returned (line 27)
    all_links,      \* get_answer: what _combine_links returned (line 30)
    qa_failed,      \* get_answer: the steps of this call that raised
    qa_result,      \* the triple get_answer returned (read only when qa_pc = "returned")
    uploaded,       \* documents: the names of the files in the uploader at the last run
    vector_store,   \* session: <<>> for None, <<names>> for an index built from
                    \* the files of these names
    processed_files, \* session: processed_files
    doc_status      \* what the last run showed of _process_docs: "none",
                    \* "processed", or the stage that failed

parseVars == <<response_text, lines, idx, questions, current_q, pc, result, exc, history>>
genVars == <<gq_pc, attempt, calls, waits, errors, parses, gq_response, gq_value, gq_exc>>
quizVars == <<quiz_is_none, quiz, current_question, user_answers, picked, shown, score, clicked>>
concVars == <<frames, acc>>
qaVars == <<qa_pc, yt_links, web_links, all_links, qa_failed, qa_result>>
docVars == <<uploaded, vector_store, processed_files, doc_status>>
vars == <<parseVars, genVars, quizVars, concVars, qaVars, docVars>>

\* what the steps of parse_quiz, of generate_quiz and of the quiz session
\* leave alone
outsideParse == <<genVars, quizVars, concVars, qaVars, docVars>>
outsideGen == <<parseVars, quizVars, concVars, qaVars, docVars>>
outsideQuiz == <<parseVars, genVars, concVars, qaVars, docVars>>
outsideConc == <<parseVars, genVars, quizVars, qaVars, docVars>>
outsideQA == <<parseVars, genVars, quizVars, concVars, docVars>>
outsideDocs == <<parseVars, genVars, quizVars, concVars, qaVars>>

(***************************************************************************)
(* Python str and list operations used by parse_quiz.                      *)
(***************************************************************************)
UpperLetters ==
    <<"A", "B", "C", "D", "E", "F", "G", "H", "I", "J", "K", "L", "M",
      "N", "O", "P", "Q", "R", "S", "T", "U", "V", "W", "X", "Y", "Z">>

LowerLetters ==
    <<"a", "b", "c", "d", "e", "f", "g", "h", "i", "j", "k", "l", "m",
      "n", "o", "p", "q", "r", "s", "t", "u", "v", "w", "x", "y", "z">>

Whitespace == {" ", "\t", "\n", "\r"}

\* str.lower() on one character
LowerChar(c) ==
    IF \E k \in DOMAIN UpperLetters : UpperLetters[k] = c
    THEN LowerLetters[CHOOSE k \in DOMAIN UpperLetters : UpperLetters[k] = c]
    ELSE c

\* str.lower()
Lower(s) == [k \in 1..Len(s) |-> LowerChar(s[k])]

\* s[n:]
Slice(s, n) == SubSeq(s, n + 1, Len(s))

\* str.startswith(p)
StartsWith(s, p) == Len(s) >= Len(p) /\ SubSeq(s, 1, Len(p)) = p

\* str.strip()
Strip(s) ==
    LET keep == {k \in 1..Len(s) : s[k] \notin Whitespace}
    IN  IF keep = {} THEN <<>>
        ELSE SubSeq(s, CHOOSE k \in keep : \A j \in keep : k <= j,
                       CHOOSE k \in keep : \A j \in keep : k >= j)

\* positions of the separator character in s
SepPositions(s, sep) == {k \in 1..Len(s) : s[k] = sep}

\* str.split(sep, 1)[-1]: the text after the first separator, or all of s
AfterFirst(s, sep) ==
    LET at == SepPositions(s, sep)
    IN  IF at = {} THEN s
        ELSE Slice(s, CHOOSE k \in at : \A j \in at : k <= j)

\* str.split(sep)[-1]: the text after the last separator, or all of s
AfterLast(s, sep) ==
    LET at == SepPositions(s, sep)
    IN  IF at = {} THEN s
        ELSE Slice(s, CHOOSE k \in at : \A j \in at : k >= j)

\* str.split(sep): the fields between the separators, in order
RECURSIVE Split(_, _)
Split(s, sep) ==
    LET at == SepPositions(s, sep)
    IN  IF at = {} THEN <<s>>
        ELSE LET first == CHOOSE k \in at : \A j \in at : k <= j
             IN  <<SubSeq(s, 1, first - 1)>> \o Split(Slice(s, first), sep)

\* xs[:n]
Prefix(xs, n) == SubSeq(xs, 1, IF Len(xs) < n THEN Len(xs) ELSE n)

\* dict: d[k] = v
SetKey(d, k, v) == [x \in DOMAIN d \cup {k} |-> IF x = k THEN v ELSE d[x]]

\* dict: d.get(k, default)
Get(d, k, default) == IF k \in DOMAIN d THEN d[k] ELSE default

EmptyDict == [x \in {} |-> <<>>]

(***************************************************************************)
(* parse_quiz, line by line.                                               *)
(***************************************************************************)
QuestionPrefix == <<"q", "u", "e", "s", "t", "i", "o", "n">>
AnswerPrefix == <<"a", "n", "s", "w", "e", "r", ":">>
OptionMarkers == {<<"A", ")">>, <<"B", ")">>, <<"C", ")">>, <<"D", ")">>}
AnswerLetters == {<<"a">>, <<"b">>, <<"c">>, <<"d">>}

\* line 82: [line.strip() for line in response_text.split('\n') if line.strip()]
CleanLines(text) ==
    LET raw == Split(text, "\n")
        stripped == [k \in 1..Len(raw) |-> Strip(raw[k])]
    IN  SelectSeq(stripped, LAMBDA l : l # <<>>)

\* line 86
IsQuestionLine(line) == StartsWith(Lower(line), QuestionPrefix)

\* line 91 (reached only when line 86 is false)
IsOptionLine(line) ==
    /\ ~IsQuestionLine(line)
    /\ \E m \in OptionMarkers : StartsWith(line, m)

\* line 93 (reached only when lines 86 and 91 are false)
IsAnswerLine(line) ==
    /\ ~IsQuestionLine(line)
    /\ ~IsOptionLine(line)
    /\ StartsWith(Lower(line), AnswerPrefix)

\* lines 87-88: the open record is appended when the dict is not empty
CloseRecord(qs, cq) == IF DOMAIN cq # {} THEN Append(qs, cq) ELSE qs

\* lines 89-90
NewRecord(line) ==
    [question |-> Strip(AfterFirst(line, ":")), options |-> <<>>, answer |-> <<>>]

\* line 92: current_q["options"] raises KeyError when the key is missing
OptionRaises(cq) == "options" \notin DOMAIN cq

OptionText(line) == Strip(Slice(line, 3))

AddOption(cq, line) == SetKey(cq, "options", Append(cq["options"], OptionText(line)))

\* line 94: the right-hand side, before the subscript [0]
AnswerToken(line) == Lower(Strip(AfterLast(line, ":")))

\* line 94: ""[0] raises IndexError
AnswerRaises(line) == AnswerToken(line) = <<>>

SetAnswer(cq, line) == SetKey(cq, "answer", <<AnswerToken(line)[1]>>)

\* lines 99-113 without the test of the answer letter
is_valid_question_any_answer(question) ==
    /\ Len(Get(question, "options", <<>>)) = 4
    /\ "question" \in DOMAIN question /\ question["question"] # <<>>

\* lines 99-113 without the test of the number of options
is_valid_question_any_options(question) ==
    /\ "answer" \in DOMAIN question /\ question["answer"] \in AnswerLetters
    /\ "question" \in DOMAIN question /\ question["question"] # <<>>

\* lines 99-113
is_valid_question(question) ==
    /\ Len(Get(question, "options", <<>>)) = 4
    /\ "answer" \in DOMAIN question /\ question["answer"] \in AnswerLetters
    /\ "question" \in DOMAIN question /\ question["question"] # <<>>

\* line 97 without the slice [:5]
ReturnValueNoLimit(qs) == SelectSeq(qs, is_valid_question)

\* line 97
ReturnValue(qs) == Prefix(SelectSeq(qs, is_valid_question), 5)

(***************************************************************************)
(* parse_quiz as a function of its argument: the same loop, run to its     *)
(* end.  The outcome is the list returned, or the exception raised.        *)
(***************************************************************************)
Returned(value) == [raised |-> "none", value |-> value]
Raised(e) == [raised |-> e, value |-> <<>>]

\* lines 85-97, from the lines ls on, with the locals qs and cq
RECURSIVE Scan(_, _, _)
Scan(ls, qs, cq) ==
    IF ls = <<>> THEN Returned(ReturnValue(qs))
    ELSE LET line == Head(ls) IN
         IF IsQuestionLine(line)
         THEN Scan(Tail(ls), CloseRecord(qs, cq), NewRecord(line))
         ELSE IF IsOptionLine(line)
         THEN IF OptionRaises(cq) THEN Raised("KeyError")
              ELSE Scan(Tail(ls), qs, AddOption(cq, line))
         ELSE IF IsAnswerLine(line)
         THEN IF AnswerRaises(line) THEN Raised("IndexError")
              ELSE Scan(Tail(ls), qs, SetAnswer(cq, line))
         ELSE Scan(Tail(ls), qs, cq)

\* lines 68-97
parse_quiz(text) == Scan(CleanLines(text), <<>>, EmptyDict)

\* the outcome of the call in progress, once it has ended
Outcome == IF pc = "raised" THEN Raised(exc) ELSE Returned(result)
Ended == pc \in {"returned", "raised"}

\* the steps of the state machine compute parse_quiz(response_text)
StepsAgree == Ended => Outcome = parse_quiz(response_text)


(***************************************************************************)
(* Response texts the generation service may produce.  The parser takes    *)
(* any string; the model draws response_text from bounded families of texts.*)
(***************************************************************************)
\* 'Question 1: What is 2+2?'
LineQ1 ==
    <<"Q", "u", "e", "s", "t", "i", "o", "n", " ", "1", ":", " ", "W", "h", "a", "t", " ", "i", "s", " ", "2", "+", "2", "?">>

\* 'question 2: X'
LineQ2 ==
    <<"q", "u", "e", "s", "t", "i", "o", "n", " ", "2", ":", " ", "X">>

\* 'Question 3:'
LineQ3 ==
    <<"Q", "u", "e", "s", "t", "i", "o", "n", " ", "3", ":">>

\* 'Question 4: Y'
LineQ4 ==
    <<"Q", "u", "e", "s", "t", "i", "o", "n", " ", "4", ":", " ", "Y">>

\* 'Question 5: Z'
LineQ5 ==
    <<"Q", "u", "e", "s", "t", "i", "o", "n", " ", "5", ":", " ", "Z">>

\* 'A) 3'
LineA3 ==
    <<"A", ")", " ", "3">>

\* 'B) 4'
LineB4 ==
    <<"B", ")", " ", "4">>

\* 'C) 5'
LineC5 ==
    <<"C", ")", " ", "5">>

\* 'D) 6'
LineD6 ==
    <<"D", ")", " ", "6">>

\* 'A) p'
LineAp ==
    <<"A", ")", " ", "p">>

\* '  B) q'
LineBq ==
    <<" ", " ", "B", ")", " ", "q">>

\* 'C) r '
LineCr ==
    <<"C", ")", " ", "r", " ">>

\* 'D) s'
LineDs ==
    <<"D", ")", " ", "s">>

\* 'D) t'
LineDt ==
    <<"D", ")", " ", "t">>

\* 'Answer: B'
LineAnsB ==
    <<"A", "n", "s", "w", "e", "r", ":", " ", "B">>

\* 'ANSWER: d'
LineAnsD ==
    <<"A", "N", "S", "W", "E", "R", ":", " ", "d">>

\* 'Answer: A'
LineAnsA ==
    <<"A", "n", "s", "w", "e", "r", ":", " ", "A">>

\* 'Answer: E'
LineAnsE ==
    <<"A", "n", "s", "w", "e", "r", ":", " ", "E">>

\* 'Answer: '
LineAnsNone ==
    <<"A", "n", "s", "w", "e", "r", ":", " ">>

\* 'Here is your quiz'
LineOther ==
    <<"H", "e", "r", "e", " ", "i", "s", " ", "y", "o", "u", "r", " ", "q", "u", "i", "z">>

\* '  '
LineBlank ==
    <<" ", " ">>

\* 'A) a'
LineLetterA ==
    <<"A", ")", " ", "a">>

\* 'B) b'
LineLetterB ==
    <<"B", ")", " ", "b">>

\* 'C) c'
LineLetterC ==
    <<"C", ")", " ", "c">>

\* 'D) d'
LineLetterD ==
    <<"D", ")", " ", "d">>

\* 'a) 3'
LineLowA ==
    <<"a", ")", " ", "3">>

\* 'b) 4'
LineLowB ==
    <<"b", ")", " ", "4">>

\* 'c) 5'
LineLowC ==
    <<"c", ")", " ", "5">>

\* 'd) 6'
LineLowD ==
    <<"d", ")", " ", "6">>

\* 'A)4'
LineTightA ==
    <<"A", ")", "4">>

\* 'Answer: B: because'
LineAnsBecause ==
    <<"A", "n", "s", "w", "e", "r", ":", " ", "B", ":", " ", "b", "e", "c", "a", "u", "s", "e">>

\* 'Answer: C: see text'
LineAnsSee ==
    <<"A", "n", "s", "w", "e", "r", ":", " ", "C", ":", " ", "s", "e", "e", " ", "t", "e", "x", "t">>

\* 'Questionable claims follow'
LineQuestionable ==
    <<"Q", "u", "e", "s", "t", "i", "o", "n", "a", "b", "l", "e", " ", "c", "l", "a", "i", "m", "s", " ", "f", "o", "l", "l", "o", "w">>

\* "\n".join(ls)
RECURSIVE Join(_)
Join(ls) ==
    IF ls = <<>> THEN <<>>
    ELSE IF Len(ls) = 1 THEN ls[1]
    ELSE ls[1] \o <<"\n">> \o Join(Tail(ls))

RECURSIVE Flatten(_)
Flatten(bs) == IF bs = <<>> THEN <<>> ELSE Head(bs) \o Flatten(Tail(bs))

SeqsUpTo(S, n) == UNION {[1..k -> S] : k \in 0..n}

\* the six-line block of the prompt's format (generate_quiz, lines 39-44)
BlockGoodA == <<LineQ1, LineA3, LineB4, LineC5, LineD6, LineAnsB>>
BlockGoodB == <<LineQ2, LineAp, LineBq, LineCr, LineDs, LineAnsD>>
BlockMissingD == <<LineQ4, LineAp, LineBq, LineCr, LineAnsA>>
BlockNoAnswer == <<LineQ5, LineAp, LineBq, LineCr, LineDs>>
BlockBadAnswer == <<LineQ5, LineAp, LineBq, LineCr, LineDs, LineAnsE>>
BlockFiveOptions == <<LineQ4, LineAp, LineBq, LineCr, LineDs, LineDt, LineAnsA>>
BlockNoText == <<LineQ3, LineA3, LineB4, LineC5, LineD6, LineAnsB>>
BlockQuestionOnly == <<LineQ5>>
BlockStrayAnswer == <<LineOther, LineAnsB>>
BlockStrayOption == <<LineA3>>
BlockEmptyAnswer == <<LineQ4, LineAp, LineBq, LineCr, LineDs, LineAnsNone>>

\* a block whose option texts are the letters themselves
BlockLetterOptions == <<LineQ2, LineLetterA, LineLetterB, LineLetterC, LineLetterD, LineAnsB>>

\* blocks that depart from the prompt's format in one detail
BlockLowerOptions == <<LineQ4, LineLowA, LineLowB, LineLowC, LineLowD, LineAnsA>>
BlockTightOption == <<LineQ4, LineTightA, LineBq, LineCr, LineDs, LineAnsA>>
BlockAnswerBecause == <<LineQ5, LineAp, LineBq, LineCr, LineDs, LineAnsBecause>>
BlockAnswerSee == <<LineQ5, LineAp, LineBq, LineCr, LineDs, LineAnsSee>>
BlockQuestionable == <<LineQuestionable>>

\* a well-formed block with a line of prose between its options
BlockChatty == <<LineQ1, LineA3, LineOther, LineB4, LineC5, LineD6, LineAnsB>>

MaxLines == 3
MaxBlocks == 2
MaxLong == 7

LinePool ==
    {LineQ1, LineQ3, LineA3, LineDs, LineAnsB, LineAnsD, LineAnsE, LineAnsNone,
     LineOther, LineBlank}

BlockPool ==
    {BlockGoodA, BlockGoodB, BlockMissingD, BlockNoAnswer, BlockBadAnswer,
     BlockFiveOptions, BlockNoText, BlockQuestionOnly, BlockStrayAnswer,
     BlockStrayOption, BlockEmptyAnswer}

VariantPool ==
    {BlockGoodA, BlockQuestionOnly, BlockLowerOptions, BlockTightOption,
     BlockAnswerBecause, BlockAnswerSee, BlockQuestionable, BlockChatty}

\* the i-th block of a long response: well formed (the two well-formed blocks
\* alternate, so neighbours differ), or missing its D) line
LongBlock(i, complete) ==
    IF ~complete THEN BlockMissingD
    ELSE IF i % 2 = 1 THEN BlockGoodA ELSE BlockGoodB

LongBlocks == UNION {{[i \in 1..k |-> LongBlock(i, c[i])] : c \in [1..k -> BOOLEAN]} : k \in 0..MaxLong}

LineInputs == {Join(ls) : ls \in SeqsUpTo(LinePool, MaxLines)}
BlockInputs == {Join(Flatten(bs)) : bs \in SeqsUpTo(BlockPool, MaxBlocks)}
LongInputs == {Join(Flatten(bs)) : bs \in LongBlocks}
VariantInputs == {Join(Flatten(bs)) : bs \in SeqsUpTo(VariantPool, MaxBlocks)}

Inputs == LineInputs \cup BlockInputs \cup LongInputs \cup VariantInputs

(***************************************************************************)
(* The state after construction (QuizGenerator.__init__ and                *)
(* DocumentAnalyzerApp._init_session_states): no generate_quiz call in     *)
(* progress, no quiz in the session.                                       *)
(***************************************************************************)
\* src/quiz_generator.py, lines 11-12
retry_delay == 5
max_retries == 3

GenIdle ==
    /\ gq_pc = "idle"
    /\ attempt = 0
    /\ calls = 0
    /\ waits = <<>>
    /\ errors = <<>>
    /\ parses = 0
    /\ gq_response = <<>>
    /\ gq_value = <<>>
    /\ gq_exc = "none"

\* src/main.py, line 31, and nothing rendered yet
QuizIdle ==
    /\ quiz_is_none = TRUE
    /\ quiz = <<>>
    /\ current_question = 0
    /\ user_answers = <<>>
    /\ picked = <<>>
    /\ shown = {}
    /\ score = 0
    /\ clicked = "none"

\* no concurrent parse_quiz calls
ConcIdle ==
    /\ frames = <<>>
    /\ acc = <<>>

\* no get_answer call in progress (QASystem.__init__, src/qa_chain.py)
QAIdle ==
    /\ qa_pc = "idle"
    /\ yt_links = <<>>
    /\ web_links = <<>>
    /\ all_links = <<>>
    /\ qa_failed = {}
    /\ qa_result = <<>>

\* src/main.py, lines 25 and 32: no index, no processed files, nothing shown
DocIdle ==
    /\ uploaded = {}
    /\ vector_store = <<>>
    /\ processed_files = {}
    /\ doc_status = "none"

(***************************************************************************)
(* The state machine: one parse_quiz call, one loop iteration per step.    *)
(***************************************************************************)
Init ==
    /\ response_text \in Inputs
    /\ lines = <<>>
    /\ idx = 1
    /\ questions = <<>>
    /\ current_q = EmptyDict
    /\ pc = "call"
    /\ result = <<>>
    /\ exc = "none"
    /\ history = <<>>
    /\ GenIdle
    /\ QuizIdle
    /\ ConcIdle
    /\ QAIdle
    /\ DocIdle

\* lines 78-82 with the accumulators kept from the call before
EnterStale ==
    /\ pc = "call"
    /\ lines' = CleanLines(response_text)
    /\ idx' = 1
    /\ pc' = "loop"
    /\ UNCHANGED <<response_text, questions, current_q, result, exc, history>>
    /\ UNCHANGED outsideParse

\* lines 78-82
Enter ==
    /\ pc = "call"
    /\ questions' = <<>>
    /\ current_q' = EmptyDict
    /\ lines' = CleanLines(response_text)
    /\ idx' = 1
    /\ pc' = "loop"
    /\ UNCHANGED <<response_text, result, exc, history>>
    /\ UNCHANGED outsideParse

InLoop == pc = "loop" /\ idx <= Len(lines)

\* the exception leaves parse_quiz (nothing in it catches)
Raise(e) ==
    /\ pc' = "raised"
    /\ exc' = e
    /\ UNCHANGED <<response_text, lines, idx, questions, current_q, result, history>>
    /\ UNCHANGED outsideParse

\* the loop goes on to the next line
Continue(qs, cq) ==
    /\ questions' = qs
    /\ current_q' = cq
    /\ idx' = idx + 1
    /\ UNCHANGED <<response_text, lines, pc, result, exc, history>>
    /\ UNCHANGED outsideParse

\* lines 86-90
QuestionLine ==
    /\ InLoop
    /\ IsQuestionLine(lines[idx])
    /\ Continue(CloseRecord(questions, current_q), NewRecord(lines[idx]))

\* lines 91-92
OptionLine ==
    /\ InLoop
    /\ IsOptionLine(lines[idx])
    /\ IF OptionRaises(current_q)
       THEN Raise("KeyError")
       ELSE Continue(questions, AddOption(current_q, lines[idx]))

\* lines 93-94
AnswerLine ==
    /\ InLoop
    /\ IsAnswerLine(lines[idx])
    /\ IF AnswerRaises(lines[idx])
       THEN Raise("IndexError")
       ELSE Continue(questions, SetAnswer(current_q, lines[idx]))

\* lines 86-94 with a final branch that drops the open record
OtherLineClears ==
    /\ InLoop
    /\ ~IsQuestionLine(lines[idx])
    /\ ~IsOptionLine(lines[idx])
    /\ ~IsAnswerLine(lines[idx])
    /\ Continue(questions, EmptyDict)

\* lines 86-94 with a final branch that rejects the line
OtherLineRejected ==
    /\ InLoop
    /\ ~IsQuestionLine(lines[idx])
    /\ ~IsOptionLine(lines[idx])
    /\ ~IsAnswerLine(lines[idx])
    /\ Raise("ValueError")

\* no branch of lines 86-94 matches
OtherLine ==
    /\ InLoop
    /\ ~IsQuestionLine(lines[idx])
    /\ ~IsOptionLine(lines[idx])
    /\ ~IsAnswerLine(lines[idx])
    /\ Continue(questions, current_q)

\* line 97
Return ==
    /\ pc = "loop"
    /\ idx > Len(lines)
    /\ result' = ReturnValue(questions)
    /\ pc' = "returned"
    /\ UNCHANGED <<response_text, lines, idx, questions, current_q, exc, history>>
    /\ UNCHANGED outsideParse

Next == Enter \/ QuestionLine \/ OptionLine \/ AnswerLine \/ OtherLine \/ Return

Spec == Init /\ [][Next]_vars

(***************************************************************************)
(* Several parse_quiz calls, one after the other, on one QuizGenerator.    *)
(* The locals of a finished call are dead: the next call sets them anew    *)
(* before it reads them (lines 78-82).                                     *)
(***************************************************************************)
MaxCalls == 3

RepeatInputs ==
    {Join(Flatten(bs)) : bs \in
        {<<>>,
         <<BlockGoodA, BlockGoodB>>,
         <<BlockGoodB, BlockGoodA>>,
         <<BlockStrayAnswer, BlockMissingD, BlockGoodA, BlockQuestionOnly>>,
         <<BlockStrayOption>>,
         <<BlockEmptyAnswer>>}}

InitRepeat ==
    /\ response_text \in RepeatInputs
    /\ lines = <<>>
    /\ idx = 1
    /\ questions = <<>>
    /\ current_q = EmptyDict
    /\ pc = "call"
    /\ result = <<>>
    /\ exc = "none"
    /\ history = <<>>
    /\ GenIdle
    /\ QuizIdle
    /\ ConcIdle
    /\ QAIdle
    /\ DocIdle

\* the caller has the outcome of the call and calls parse_quiz again
CallAgain ==
    /\ Ended
    /\ Len(history) + 1 < MaxCalls
    /\ history' = Append(history, [text |-> response_text, outcome |-> Outcome])
    /\ \E t \in RepeatInputs : response_text' = t
    /\ pc' = "call"
    /\ result' = <<>>
    /\ exc' = "none"
    /\ UNCHANGED <<lines, idx, questions, current_q>>
    /\ UNCHANGED outsideParse

NextRepeat ==
    Enter \/ QuestionLine \/ OptionLine \/ AnswerLine \/ OtherLine \/ Return \/ CallAgain

SpecRepeat == InitRepeat /\ [][NextRepeat]_vars

(***************************************************************************)
(* generate_quiz (src/quiz_generator.py, lines 15-66): one invocation.     *)
(* The generation service either returns a response text or raises; the    *)
(* model draws the text and the exception message from bounded sets.       *)
(***************************************************************************)
ParseIdle ==
    /\ response_text = <<>>
    /\ lines = <<>>
    /\ idx = 1
    /\ questions = <<>>
    /\ current_q = EmptyDict
    /\ pc = "idle"
    /\ result = <<>>
    /\ exc = "none"
    /\ history = <<>>

\* sub in s
Contains(s, sub) ==
    \E k \in 1..(Len(s) - Len(sub) + 1) : SubSeq(s, k, k + Len(sub) - 1) = sub

RateLimitMark == <<"4", "2", "9">>

\* messages of the exceptions generate_content may raise
\* '429 Resource has been exhausted'
MsgRateLimit ==
    <<"4", "2", "9", " ", "R", "e", "s", "o", "u", "r", "c", "e", " ", "h", "a", "s", " ", "b", "e", "e", "n", " ", "e", "x", "h", "a", "u", "s", "t", "e", "d">>
\* '500 Internal error'
MsgServerError ==
    <<"5", "0", "0", " ", "I", "n", "t", "e", "r", "n", "a", "l", " ", "e", "r", "r", "o", "r">>
\* 'Deadline of 4290 ms exceeded'
MsgDeadline ==
    <<"D", "e", "a", "d", "l", "i", "n", "e", " ", "o", "f", " ", "4", "2", "9", "0", " ", "m", "s", " ", "e", "x", "c", "e", "e", "d", "e", "d">>

ServiceErrors == {MsgRateLimit, MsgServerError, MsgDeadline}

\* str(e) of an exception of parse_quiz that reads like a rate limit
ExcMessageRateLimit(e) == MsgRateLimit

\* str(e) of the exceptions parse_quiz raises (lines 92 and 94)
ExcMessage(e) ==
    IF e = "KeyError" THEN <<"'", "o", "p", "t", "i", "o", "n", "s", "'">>
    ELSE <<"s", "t", "r", "i", "n", "g", " ", "i", "n", "d", "e", "x", " ", "o", "u", "t", " ", "o", "f", " ", "r", "a", "n", "g", "e">>

\* the response texts the service may return: the empty text, one block, or
\* two blocks of which the first or the last is well formed
ServiceBlocks == BlockPool \cup VariantPool

ServiceTexts ==
    {Join(Flatten(bs)) : bs \in
        {<<>>}
        \cup {<<b>> : b \in ServiceBlocks}
        \cup {<<BlockGoodA, b>> : b \in ServiceBlocks}
        \cup {<<b, BlockGoodB>> : b \in ServiceBlocks}}

InitGen ==
    /\ ParseIdle
    /\ QuizIdle
    /\ ConcIdle
    /\ QAIdle
    /\ DocIdle
    /\ gq_pc = "split"
    /\ attempt = 0
    /\ calls = 0
    /\ waits = <<>>
    /\ errors = <<>>
    /\ parses = 0
    /\ gq_response = <<>>
    /\ gq_value = <<>>
    /\ gq_exc = "none"

\* lines 65-66: whatever exception reaches the outer handler leaves as a
\* RuntimeError
GenFail ==
    /\ gq_pc' = "raised"
    /\ gq_exc' = "RuntimeError"
    /\ UNCHANGED <<attempt, waits, gq_value>>

\* lines 59-63 retrying after any exception
HandleAttemptErrorAny(msg) ==
    /\ errors' = Append(errors, msg)
    /\ IF attempt < max_retries - 1
       THEN /\ waits' = Append(waits, retry_delay * (attempt + 1))
            /\ attempt' = attempt + 1
            /\ gq_pc' = IF attempt + 1 < max_retries THEN "attempt" ELSE "returned_none"
            /\ UNCHANGED <<gq_value, gq_exc>>
       ELSE GenFail

\* lines 59-63 with the test attempt < self.max_retries
HandleAttemptErrorLate(msg) ==
    /\ errors' = Append(errors, msg)
    /\ IF Contains(msg, RateLimitMark) /\ attempt < max_retries
       THEN /\ waits' = Append(waits, retry_delay * (attempt + 1))
            /\ attempt' = attempt + 1
            /\ gq_pc' = IF attempt + 1 < max_retries THEN "attempt" ELSE "returned_none"
            /\ UNCHANGED <<gq_value, gq_exc>>
       ELSE GenFail

\* lines 59-63: the exception e of this attempt, msg = str(e).  After
\* 'continue' the loop of line 49 goes on while attempt < max_retries; were
\* it to run out, the function would end without a return statement
HandleAttemptError(msg) ==
    /\ errors' = Append(errors, msg)
    /\ IF Contains(msg, RateLimitMark) /\ attempt < max_retries - 1
       THEN /\ waits' = Append(waits, retry_delay * (attempt + 1))
            /\ attempt' = attempt + 1
            /\ gq_pc' = IF attempt + 1 < max_retries THEN "attempt" ELSE "returned_none"
            /\ UNCHANGED <<gq_value, gq_exc>>
       ELSE GenFail

\* lines 28-49: the text is split and the prompt built
GenPrepare ==
    /\ gq_pc = "split"
    /\ gq_pc' = "attempt"
    /\ attempt' = 0
    /\ UNCHANGED <<calls, waits, errors, parses, gq_response, gq_value, gq_exc>>
    /\ UNCHANGED outsideGen

\* lines 30-31 raise (pdf_text is no string, say): lines 65-66
GenPrepareFails ==
    /\ gq_pc = "split"
    /\ GenFail
    /\ UNCHANGED <<calls, errors, parses, gq_response>>
    /\ UNCHANGED outsideGen

\* lines 51-58: the service answers and parse_quiz returns
GenAttemptParsed ==
    /\ gq_pc = "attempt"
    /\ \E t \in ServiceTexts :
          /\ parse_quiz(t).raised = "none"
          /\ gq_response' = t
          /\ gq_value' = parse_quiz(t).value
    /\ calls' = calls + 1
    /\ parses' = parses + 1
    /\ gq_pc' = "returned"
    /\ UNCHANGED <<attempt, waits, errors, gq_exc>>
    /\ UNCHANGED outsideGen

\* lines 51-63: the service answers and parse_quiz raises
GenAttemptParseFails ==
    /\ gq_pc = "attempt"
    /\ \E t \in ServiceTexts :
          /\ parse_quiz(t).raised # "none"
          /\ gq_response' = t
          /\ HandleAttemptError(ExcMessage(parse_quiz(t).raised))
    /\ calls' = calls + 1
    /\ parses' = parses + 1
    /\ UNCHANGED outsideGen

\* lines 51-63: generate_content raises
GenAttemptServiceFails ==
    /\ gq_pc = "attempt"
    /\ \E msg \in ServiceErrors : HandleAttemptError(msg)
    /\ calls' = calls + 1
    /\ UNCHANGED <<parses, gq_response>>
    /\ UNCHANGED outsideGen

NextGen ==
    \/ GenPrepare
    \/ GenPrepareFails
    \/ GenAttemptParsed
    \/ GenAttemptParseFails
    \/ GenAttemptServiceFails

\* generate_quiz is sequential code: each step it can take, it takes
SpecGen == InitGen /\ [][NextGen]_vars /\ WF_vars(NextGen)

GenEnded == gq_pc \in {"returned", "returned_none", "raised"}

(***************************************************************************)
(* The quiz session of DocumentAnalyzerApp (src/main.py, lines 183-236).   *)
(* Every click runs the script once: the handler of the pressed button,    *)
(* then the page is drawn from the session state.  generate_quiz is taken  *)
(* by its outcome: the list parse_quiz gives for the service's response,   *)
(* or an exception.                                                        *)
(***************************************************************************)
MaxAnswers == 4

\* the responses behind the quizzes of the session
QuizTexts ==
    {Join(Flatten(bs)) : bs \in
        {<<>>,
         <<BlockNoAnswer, BlockQuestionOnly>>,
         <<BlockGoodA, BlockQuestionOnly>>,
         <<BlockGoodA, BlockLetterOptions, BlockQuestionOnly>>,
         <<BlockLetterOptions, BlockGoodB, BlockQuestionOnly>>,
         <<BlockStrayOption>>}}

\* the lists generate_quiz can return on the responses of the session
QuizLists == {parse_quiz(t).value : t \in {x \in QuizTexts : parse_quiz(x).raised = "none"}}

InitQuiz ==
    /\ ParseIdle
    /\ GenIdle
    /\ QuizIdle
    /\ ConcIdle
    /\ QAIdle
    /\ DocIdle

\* line 198 as a test 'is not None'
QuizTruthyNotNone(is_none, q) == ~is_none

\* line 198: the truth value of st.session_state.quiz["quiz"]
QuizTruthy(is_none, q) == ~is_none /\ q # <<>>

\* lines 198-221: what the run draws for the session state it ends with (the
\* question with its 'Next' button, disabled or not, and the 'Previous'
\* button of line 217; or the results)
View(is_none, q, current) ==
    IF ~QuizTruthy(is_none, q) THEN {}
    ELSE IF current < Len(q)
    THEN {"question", "next"} \cup (IF current > 0 THEN {"previous"} ELSE {})
    ELSE {"results"}

Min(a, b) == IF a < b THEN a ELSE b

\* lines 224-226: sum(1 for ans, q in zip(user_answers, quiz) if ans == q["answer"])
show_results(answers, q) ==
    Cardinality({i \in 1..Min(Len(answers), Len(q)) : answers[i] = q[i]["answer"]})

\* line 234: ord(q['answer']) - 97, for an answer that is a lower-case letter
review_index(answer) ==
    (CHOOSE k \in DOMAIN LowerLetters : <<LowerLetters[k]>> = answer) - 1

\* lines 228-234: the exception that ends _show_results ("none" if none):
\* the division of line 228, then for each reviewed pair ord() of the answer
\* and the subscript of the options
show_results_raises(answers, q) ==
    IF Len(q) = 0 THEN "ZeroDivisionError"
    ELSE IF \E i \in 1..Min(Len(answers), Len(q)) : Get(q[i], "answer", <<>>) = <<>>
    THEN "TypeError"
    ELSE IF \E i \in 1..Min(Len(answers), Len(q)) :
                review_index(q[i]["answer"]) >= Len(Get(q[i], "options", <<>>))
    THEN "IndexError"
    ELSE "none"

\* lines 223-236: what _show_results adds to the page when it raises
ResultsFailure(view, answers, q) ==
    IF "results" \in view /\ show_results_raises(answers, q) # "none"
    THEN {show_results_raises(answers, q)}
    ELSE {}

\* the rest of the run after the handler: the page for the new session state
Render(messages) ==
    /\ shown' = messages \cup View(quiz_is_none', quiz', current_question')
                 \cup ResultsFailure(View(quiz_is_none', quiz', current_question'),
                                     user_answers', quiz')
    /\ score' = IF "results" \in View(quiz_is_none', quiz', current_question')
                THEN show_results(user_answers', quiz')
                ELSE 0

\* lines 185-194 with an update that leaves out "current_question": 0
GenerateQuizKeepsPosition ==
    /\ \E returned \in QuizLists : quiz' = returned
    /\ quiz_is_none' = FALSE
    /\ UNCHANGED current_question
    /\ user_answers' = <<>>
    /\ picked' = [i \in 1..Len(quiz') |-> -1]
    /\ clicked' = "generate"
    /\ Render({})
    /\ UNCHANGED outsideQuiz

\* lines 185-194: 'Generate Quiz' pressed, generate_quiz returns a list
GenerateQuiz ==
    /\ \E returned \in QuizLists : quiz' = returned
    /\ quiz_is_none' = FALSE
    /\ current_question' = 0
    /\ user_answers' = <<>>
    /\ picked' = [i \in 1..Len(quiz') |-> -1]
    /\ clicked' = "generate"
    /\ Render({})
    /\ UNCHANGED outsideQuiz

\* lines 185-196: 'Generate Quiz' pressed, extract_text or generate_quiz
\* raises; st.error shows the message and the session keeps what it had
GenerateQuizFails ==
    /\ UNCHANGED <<quiz_is_none, quiz, current_question, user_answers, picked>>
    /\ clicked' = "generate"
    /\ Render({"error"})
    /\ UNCHANGED outsideQuiz

\* lines 204-215: an option is selected and 'Next' pressed (the button is
\* disabled while st.radio gives None or an empty string)
NextClick ==
    /\ QuizTruthy(quiz_is_none, quiz)
    /\ current_question < Len(quiz)
    /\ Len(user_answers) < MaxAnswers
    /\ \E j \in 0..3 :
          LET selected == quiz[current_question + 1]["options"][j + 1]
          IN  /\ selected # <<>>
              /\ user_answers' = Append(user_answers, selected)
              /\ picked' = [picked EXCEPT ![current_question + 1] = j]
    /\ current_question' = current_question + 1
    /\ UNCHANGED <<quiz_is_none, quiz>>
    /\ clicked' = "next"
    /\ Render({})
    /\ UNCHANGED outsideQuiz

\* lines 204-219 with the 'Previous' button drawn for the first question too
PreviousClickAtFirst ==
    /\ QuizTruthy(quiz_is_none, quiz)
    /\ current_question < Len(quiz)
    /\ current_question' = current_question - 1
    /\ UNCHANGED <<quiz_is_none, quiz, user_answers, picked>>
    /\ clicked' = "previous"
    /\ Render({})
    /\ UNCHANGED outsideQuiz

\* lines 204-219: 'Previous' pressed; user_answers keeps its entries
PreviousClick ==
    /\ QuizTruthy(quiz_is_none, quiz)
    /\ current_question < Len(quiz)
    /\ current_question > 0
    /\ current_question' = current_question - 1
    /\ UNCHANGED <<quiz_is_none, quiz, user_answers, picked>>
    /\ clicked' = "previous"
    /\ Render({})
    /\ UNCHANGED outsideQuiz

NextQuiz ==
    \/ GenerateQuiz
    \/ GenerateQuizFails
    \/ NextClick
    \/ PreviousClick

SpecQuiz == InitQuiz /\ [][NextQuiz]_vars

(***************************************************************************)
(* Concurrent parse_quiz calls on one QuizGenerator (lines 68-97): each     *)
(* thread runs the call on its own argument, one loop iteration per step,  *)
(* and the steps of the threads interleave in any order.                   *)
(***************************************************************************)
MaxThreads == 2

Threads == 1..MaxThreads

ConcInputs ==
    {Join(Flatten(bs)) : bs \in
        {<<>>,
         <<BlockGoodA, BlockQuestionOnly>>,
         <<BlockMissingD, BlockGoodB, BlockQuestionOnly>>,
         <<BlockStrayOption>>}}

\* lines 78-79: questions = [], current_q = {}
NoLocals == [questions |-> <<>>, current_q |-> EmptyDict]

NewFrame(text) ==
    [text |-> text, lines |-> <<>>, idx |-> 1, pc |-> "call", result |-> <<>>, exc |-> "none"]

InitConc ==
    /\ ParseIdle
    /\ GenIdle
    /\ QuizIdle
    /\ QAIdle
    /\ DocIdle
    /\ frames \in [Threads -> {NewFrame(text) : text \in ConcInputs}]
    /\ acc = [k \in {0} \cup Threads |-> NoLocals]

\* lines 78-79 with the accumulators kept in fields of self
LocalsOnSelf(t) == 0

\* lines 78-79: questions and current_q are locals, one pair per call
Locals(t) == t

\* lines 86-94 for one line: the exception raised ("none" if none) and the
\* accumulators after it
LineEffect(line, qs, cq) ==
    IF IsQuestionLine(line)
    THEN [raised |-> "none", questions |-> CloseRecord(qs, cq), current_q |-> NewRecord(line)]
    ELSE IF IsOptionLine(line)
    THEN IF OptionRaises(cq)
         THEN [raised |-> "KeyError", questions |-> qs, current_q |-> cq]
         ELSE [raised |-> "none", questions |-> qs, current_q |-> AddOption(cq, line)]
    ELSE IF IsAnswerLine(line)
    THEN IF AnswerRaises(line)
         THEN [raised |-> "IndexError", questions |-> qs, current_q |-> cq]
         ELSE [raised |-> "none", questions |-> qs, current_q |-> SetAnswer(cq, line)]
    ELSE [raised |-> "none", questions |-> qs, current_q |-> cq]

\* lines 78-82 in thread t
ThreadEnter(t) ==
    /\ frames[t].pc = "call"
    /\ frames' = [frames EXCEPT ![t].lines = CleanLines(frames[t].text),
                                ![t].idx = 1,
                                ![t].pc = "loop"]
    /\ acc' = [acc EXCEPT ![Locals(t)] = NoLocals]
    /\ UNCHANGED outsideConc

\* lines 85-94 in thread t: one iteration of the loop
ThreadLine(t) ==
    /\ frames[t].pc = "loop"
    /\ frames[t].idx <= Len(frames[t].lines)
    /\ LET mine == acc[Locals(t)]
           after == LineEffect(frames[t].lines[frames[t].idx], mine.questions, mine.current_q)
       IN  IF after.raised # "none"
           THEN /\ frames' = [frames EXCEPT ![t].pc = "raised", ![t].exc = after.raised]
                /\ UNCHANGED acc
           ELSE /\ frames' = [frames EXCEPT ![t].idx = @ + 1]
                /\ acc' = [acc EXCEPT ![Locals(t)] =
                              [questions |-> after.questions, current_q |-> after.current_q]]
    /\ UNCHANGED outsideConc

\* line 97 in thread t
ThreadReturn(t) ==
    /\ frames[t].pc = "loop"
    /\ frames[t].idx > Len(frames[t].lines)
    /\ frames' = [frames EXCEPT ![t].pc = "returned",
                                ![t].result = ReturnValue(acc[Locals(t)].questions)]
    /\ UNCHANGED acc
    /\ UNCHANGED outsideConc

NextConc ==
    \E t \in Threads :
        \/ ThreadEnter(t)
        \/ ThreadLine(t)
        \/ ThreadReturn(t)

SpecConc == InitConc /\ [][NextConc]_vars

FrameEnded(f) == f.pc \in {"returned", "raised"}

FrameOutcome(f) == IF f.pc = "raised" THEN Raised(f.exc) ELSE Returned(f.result)

(***************************************************************************)
(* QASystem.get_answer (src/qa_chain.py, lines 19-36) with the helpers it   *)
(* calls: one call, one statement of its try block per step.  The vector   *)
(* store, the two searches and the model either return or raise.           *)
(***************************************************************************)
MaxLinks == 3

\* the link records built at lines 53-59 and 72-77, told apart by their url
YouTubeLink(k) == [type |-> "youtube", url |-> k]
WebLink(k) == [type |-> "web", url |-> k]

\* the orders in which a search may return up to MaxLinks distinct results
ResultOrders ==
    {s \in UNION {[1..n -> 1..MaxLinks] : n \in 0..MaxLinks} :
        \A i, j \in DOMAIN s : i # j => s[i] # s[j]}

\* line 155: key=lambda x: x['type'] == 'youtube'
LinkKey(link) == IF link["type"] = "youtube" THEN 1 ELSE 0

\* sorted(..., reverse=True) puts link into a sorted list: after the links
\* whose key is not smaller (the sort is stable)
RECURSIVE InsertDescending(_, _)
InsertDescending(sorted, link) ==
    IF sorted = <<>> THEN <<link>>
    ELSE IF LinkKey(Head(sorted)) >= LinkKey(link)
    THEN <<Head(sorted)>> \o InsertDescending(Tail(sorted), link)
    ELSE <<link>> \o sorted

RECURSIVE SortedDescending(_)
SortedDescending(links) ==
    IF links = <<>> THEN <<>>
    ELSE InsertDescending(SortedDescending(SubSeq(links, 1, Len(links) - 1)),
                          links[Len(links)])

\* lines 154-155 without the slice [:5]
combine_links_no_limit(yt, web) == SortedDescending(yt \o web)

\* lines 154-155
combine_links(yt, web) == Prefix(SortedDescending(yt \o web), 5)

InitQA ==
    /\ ParseIdle
    /\ GenIdle
    /\ QuizIdle
    /\ ConcIdle
    /\ DocIdle
    /\ qa_pc = "search"
    /\ yt_links = <<>>
    /\ web_links = <<>>
    /\ all_links = <<>>
    /\ qa_failed = {}
    /\ qa_result = <<>>

\* the statement at pc is done, the call goes on
QAGoes(next) ==
    /\ qa_pc' = next
    /\ UNCHANGED qa_result

\* get_answer returns
QAReturns(answer, source, links) ==
    /\ qa_pc' = "returned"
    /\ qa_result' = [answer |-> answer, source |-> source, links |-> links]

\* line 23: the vector search returns
VectorSearch ==
    /\ qa_pc = "search"
    /\ QAGoes("youtube")
    /\ UNCHANGED <<yt_links, web_links, all_links, qa_failed>>
    /\ UNCHANGED outsideQA

\* lines 23, 35-36: the vector search raises (vector_store is None, say)
VectorSearchFails ==
    /\ qa_pc = "search"
    /\ qa_failed' = qa_failed \cup {"search"}
    /\ QAReturns("Error processing query", "error", <<>>)
    /\ UNCHANGED <<yt_links, web_links, all_links>>
    /\ UNCHANGED outsideQA

\* lines 26, 38-59: the YouTube search returns its items (none when there is
\* no client)
YouTubeLinks ==
    /\ qa_pc = "youtube"
    /\ \E order \in ResultOrders :
          yt_links' = [i \in DOMAIN order |-> YouTubeLink(order[i])]
    /\ QAGoes("web")
    /\ UNCHANGED <<web_links, all_links, qa_failed>>
    /\ UNCHANGED outsideQA

\* lines 26, 35-36: the YouTube search raises and nothing in
\* _get_youtube_links catches
YouTubeLinksFailsUncaught ==
    /\ qa_pc = "youtube"
    /\ qa_failed' = qa_failed \cup {"youtube"}
    /\ QAReturns("Error processing query", "error", <<>>)
    /\ UNCHANGED <<yt_links, web_links, all_links>>
    /\ UNCHANGED outsideQA

\* lines 26, 61-63: the YouTube search raises
YouTubeLinksFails ==
    /\ qa_pc = "youtube"
    /\ yt_links' = <<>>
    /\ qa_failed' = qa_failed \cup {"youtube"}
    /\ QAGoes("web")
    /\ UNCHANGED <<web_links, all_links>>
    /\ UNCHANGED outsideQA

\* lines 27, 65-77: the web search returns its results
WebLinks ==
    /\ qa_pc = "web"
    /\ \E order \in ResultOrders :
          web_links' = [i \in DOMAIN order |-> WebLink(order[i])]
    /\ QAGoes("combine")
    /\ UNCHANGED <<yt_links, all_links, qa_failed>>
    /\ UNCHANGED outsideQA

\* lines 27, 79-81: the web search raises
WebLinksFails ==
    /\ qa_pc = "web"
    /\ web_links' = <<>>
    /\ qa_failed' = qa_failed \cup {"web"}
    /\ QAGoes("combine")
    /\ UNCHANGED <<yt_links, all_links>>
    /\ UNCHANGED outsideQA

\* line 30
CombineLinks ==
    /\ qa_pc = "combine"
    /\ all_links' = combine_links(yt_links, web_links)
    /\ QAGoes("answer")
    /\ UNCHANGED <<yt_links, web_links, qa_failed>>
    /\ UNCHANGED outsideQA

\* lines 33-34, 157-190: the model answers
GenerateAnswer ==
    /\ qa_pc = "answer"
    /\ QAReturns("answer", "combined", all_links)
    /\ UNCHANGED <<yt_links, web_links, all_links, qa_failed>>
    /\ UNCHANGED outsideQA

\* lines 33-34, 192-194: building the prompt or the model raises
GenerateAnswerFails ==
    /\ qa_pc = "answer"
    /\ qa_failed' = qa_failed \cup {"answer"}
    /\ QAReturns("Failed to generate answer", "combined", all_links)
    /\ UNCHANGED <<yt_links, web_links, all_links>>
    /\ UNCHANGED outsideQA

NextQA ==
    \/ VectorSearch
    \/ VectorSearchFails
    \/ YouTubeLinks
    \/ YouTubeLinksFails
    \/ WebLinks
    \/ WebLinksFails
    \/ CombineLinks
    \/ GenerateAnswer
    \/ GenerateAnswerFails

SpecQA == InitQA /\ [][NextQA]_vars

(***************************************************************************)
(* Document analysis (src/main.py, lines 92-106): every run of the script  *)
(* finds some files in the uploader and, if there are any, calls           *)
(* _process_docs on them.                                                  *)
(***************************************************************************)
FileNames == {"a.pdf", "b.pdf", "c.pdf"}

\* the stages of lines 96-100, each of which raises RuntimeError when it fails
\* (src/document_processor.py, lines 47, 219, 200)
Stages == {"extract_text", "split_text", "create_vector_store"}

InitDocs ==
    /\ ParseIdle
    /\ GenIdle
    /\ QuizIdle
    /\ ConcIdle
    /\ QAIdle
    /\ DocIdle

\* the uploader is empty: _process_docs is not called
RunWithoutFiles ==
    /\ uploaded' = {}
    /\ doc_status' = "none"
    /\ UNCHANGED <<vector_store, processed_files>>
    /\ UNCHANGED outsideDocs

\* lines 93-94: the names are those of the processed files, nothing is done
ProcessDocsSkips ==
    /\ \E files \in (SUBSET FileNames) \ {{}} :
          /\ processed_files = files
          /\ uploaded' = files
    /\ doc_status' = "none"
    /\ UNCHANGED <<vector_store, processed_files>>
    /\ UNCHANGED outsideDocs

\* lines 93-103: the three stages return
ProcessDocs ==
    /\ \E files \in (SUBSET FileNames) \ {{}} :
          /\ processed_files # files
          /\ uploaded' = files
          /\ vector_store' = <<files>>
          /\ processed_files' = files
    /\ doc_status' = "processed"
    /\ UNCHANGED outsideDocs

\* lines 93-106 with processed_files set before the stages run
ProcessDocsFailsMarked ==
    /\ \E files \in (SUBSET FileNames) \ {{}} :
          /\ processed_files # files
          /\ uploaded' = files
          /\ processed_files' = files
    /\ \E stage \in Stages : doc_status' = stage
    /\ UNCHANGED vector_store
    /\ UNCHANGED outsideDocs

\* lines 93-106: one of the stages raises; the status and st.error show it
ProcessDocsFails ==
    /\ \E files \in (SUBSET FileNames) \ {{}} :
          /\ processed_files # files
          /\ uploaded' = files
    /\ \E stage \in Stages : doc_status' = stage
    /\ UNCHANGED <<vector_store, processed_files>>
    /\ UNCHANGED outsideDocs

NextDocs ==
    \/ RunWithoutFiles
    \/ ProcessDocsSkips
    \/ ProcessDocs
    \/ ProcessDocsFails

SpecDocs == InitDocs /\ [][NextDocs]_vars

(***************************************************************************)
(* The question blocks of a response, read off its text: a block runs from *)
(* a 'Question' line to the line before the next one.  The claims compare  *)
(* what parse_quiz returns with these.                                     *)
(***************************************************************************)
Range(s) == {s[k] : k \in 1..Len(s)}

QuestionPositions(ls) == {p \in 1..Len(ls) : IsQuestionLine(ls[p])}

\* the last line of the block that the 'Question' line at p opens
BlockEnd(ls, p) ==
    LET later == {q \in QuestionPositions(ls) : q > p}
    IN  IF later = {} THEN Len(ls)
        ELSE (CHOOSE q \in later : \A r \in later : q <= r) - 1

\* the record a block spells out: its question text, its option texts in
\* order, and the letter of its last 'Answer:' line
BlockRecord(ls, p) ==
    LET body == SubSeq(ls, p + 1, BlockEnd(ls, p))
        opts == SelectSeq(body, IsOptionLine)
        answers == SelectSeq(body, IsAnswerLine)
    IN  [question |-> Strip(AfterFirst(ls[p], ":")),
         options |-> [k \in 1..Len(opts) |-> OptionText(opts[k])],
         answer |-> IF answers = <<>> THEN <<>>
                    ELSE SubSeq(AnswerToken(answers[Len(answers)]), 1, 1)]

\* the blocks' records in their textual order
TextualRecords(ls) ==
    LET ps == QuestionPositions(ls)
        nth(k) == CHOOSE p \in ps : Cardinality({q \in ps : q < p}) = k - 1
    IN  [k \in 1..Cardinality(ps) |-> BlockRecord(ls, nth(k))]

\* a valid record (spec, section 3): 4 options, a question text, a letter a-d
ValidRecord(r) ==
    /\ DOMAIN r = {"question", "options", "answer"}
    /\ Len(r["options"]) = 4
    /\ r["question"] # <<>>
    /\ r["answer"] \in {<<"a">>, <<"b">>, <<"c">>, <<"d">>}

\* the record of the six-line example
ExampleRecord ==
    [question |-> <<"W", "h", "a", "t", " ", "i", "s", " ", "2", "+", "2", "?">>,
     options |-> <<<<"3">>, <<"4">>, <<"5">>, <<"6">>>>,
     answer |-> <<"b">>]

(***************************************************************************)
(* Claims.                                                                 *)
(***************************************************************************)

\* C1: parse_quiz is total: whatever the input, the call returns a list and
\* never raises an exception.
C1_NeverRaises == pc # "raised"

\* C2: the record still open at the end of the scan is appended before
\* filtering, so the call returns what it returns for the same input followed
\* by one more 'Question' line.
C2_FinalRecordAppended ==
    pc = "returned" =>
        Returned(result) = parse_quiz(response_text \o <<"\n">> \o LineQ5)

\* C3: the six-line example yields exactly one record, with question
\* 'What is 2+2?', options 3, 4, 5, 6 and answer b.
C3_SixLineExample ==
    (pc = "returned" /\ response_text = Join(BlockGoodA)) =>
        result = <<ExampleRecord>>

\* C4: every record of the returned list is valid: exactly 4 options, a
\* non-empty question and an answer among a, b, c, d.
C4_ReturnedRecordsValid ==
    pc = "returned" => \A k \in 1..Len(result) : ValidRecord(result[k])

\* C4 witness: a call returned a record while it dropped another.
C4_Witness ==
    /\ pc = "returned"
    /\ result # <<>>
    /\ \E k \in 1..Len(questions) : ~ValidRecord(questions[k])

\* C5: the returned list never has more than 5 elements.
C5_AtMostFive == pc = "returned" => Len(result) <= 5

\* C5 witness: a call returned 5 records out of more than 5 valid ones.
C5_Witness ==
    /\ pc = "returned"
    /\ Len(result) = 5
    /\ Len(SelectSeq(questions, ValidRecord)) > 5

\* C6: the returned list is exactly the first five valid records of the input
\* in their textual order.
C6_FirstFiveValidInOrder ==
    pc = "returned" =>
        result = Prefix(SelectSeq(TextualRecords(lines), ValidRecord), 5)

\* C7: a block with fewer than 4 option lines is not in the returned list,
\* even with a valid 'Answer:' line, and the list is the one returned when the
\* records of such blocks are left out of the accumulated records.
FewOptions(r) == Len(Get(r, "options", <<>>)) < 4
EnoughOptions(r) == ~FewOptions(r)

C7_FewOptionsExcluded ==
    pc = "returned" =>
        /\ \A k \in 1..Len(result) : ~FewOptions(result[k])
        /\ \A p \in QuestionPositions(lines) :
              FewOptions(BlockRecord(lines, p)) =>
                  BlockRecord(lines, p) \notin Range(result)
        /\ result = Prefix(SelectSeq(SelectSeq(questions, EnoughOptions), ValidRecord), 5)

\* C7 witness: a block with 3 options and a valid answer was scanned and
\* dropped, and another block was returned.
C7_Witness ==
    /\ pc = "returned"
    /\ result # <<>>
    /\ \E k \in 1..Len(questions) :
          /\ Len(Get(questions[k], "options", <<>>)) = 3
          /\ Get(questions[k], "answer", <<>>) \in AnswerLetters

\* a line with none of the prefixes 'question', 'A)'..'D)', 'answer:'
NoPrefix(line) ==
    /\ ~StartsWith(Lower(Strip(line)), QuestionPrefix)
    /\ ~StartsWith(Lower(Strip(line)), AnswerPrefix)
    /\ \A m \in OptionMarkers : ~StartsWith(Strip(line), m)

Unrecognized(text) == \A l \in Range(Split(text, "\n")) : NoPrefix(l)

\* C8: on the empty string, and on any input none of whose lines starts with
\* a recognized prefix, the call returns the empty list and does not raise.
C8_UnrecognizedGivesEmpty ==
    (Ended /\ Unrecognized(response_text)) => (pc = "returned" /\ result = <<>>)

\* C8 witness: a call on a text of unrecognized lines has ended, having
\* scanned at least two of them.
C8_Witness ==
    /\ Ended
    /\ Unrecognized(response_text)
    /\ Len(lines) >= 2

\* C9: when two 'Question' lines follow each other, the first one's record is
\* not returned and the second block, if complete, is (within the limit of 5).
C9_ConsecutiveQuestions ==
    pc = "returned" =>
        \A p \in QuestionPositions(lines) :
            (p + 1 \in QuestionPositions(lines)) =>
                /\ BlockRecord(lines, p) \notin Range(result)
                /\ (/\ ValidRecord(BlockRecord(lines, p + 1))
                    /\ Cardinality({q \in QuestionPositions(lines) :
                           q <= p /\ ValidRecord(BlockRecord(lines, q))}) < 5)
                   => BlockRecord(lines, p + 1) \in Range(result)

\* the calls that have ended, each with its argument and its outcome
EndedCalls ==
    Range(history) \cup
        (IF Ended THEN {[text |-> response_text, outcome |-> Outcome]} ELSE {})

\* C10: two parse_quiz calls on the same string have the same outcome,
\* whatever calls the same QuizGenerator served before and between them.
C10_SameInputSameOutput ==
    \A a \in EndedCalls : \A b \in EndedCalls :
        a.text = b.text => a.outcome = b.outcome

\* C10 witness: a call that returned records, then a call on another text,
\* then a call on the first text again.
C10_Witness ==
    /\ Len(history) = 2
    /\ pc = "returned"
    /\ result # <<>>
    /\ history[1].text = response_text
    /\ history[2].text # response_text

\* ls without its p-th element
RemoveAt(ls, p) == SubSeq(ls, 1, p - 1) \o SubSeq(ls, p + 1, Len(ls))

\* no 'Question' line comes before line p: no record is open there
NoneOpenAt(ls, p) == \A q \in QuestionPositions(ls) : q > p

\* C11: an option line met before the first 'Question' line is ignored: the
\* call ends as it does on the same input without that line.
C11_StrayOptionIgnored ==
    Ended =>
        \A p \in 1..Len(lines) :
            (IsOptionLine(lines[p]) /\ NoneOpenAt(lines, p)) =>
                Outcome = parse_quiz(Join(RemoveAt(lines, p)))

\* C12: an 'Answer:' line met before the first 'Question' line opens no
\* record, and the call ends as it does on the same input without that line.
C12_StrayAnswerIgnored ==
    /\ (pc = "loop" /\ idx > 1 /\ IsAnswerLine(lines[idx - 1])
            /\ NoneOpenAt(lines, idx - 1)) => current_q = EmptyDict
    /\ Ended =>
        \A p \in 1..Len(lines) :
            (IsAnswerLine(lines[p]) /\ NoneOpenAt(lines, p)) =>
                Outcome = parse_quiz(Join(RemoveAt(lines, p)))

\* a line with its prefix written as in the prompt's format: 'a)' as 'A)'
\* (and so on for b, c, d); 'question' and 'answer:' are matched in any case
\* already, so only option markers need rewriting
UpperMarker(line) ==
    IF /\ Len(line) >= 2
       /\ line[1] \in {"a", "b", "c", "d"}
       /\ line[2] = ")"
    THEN <<UpperLetters[CHOOSE k \in DOMAIN LowerLetters : LowerLetters[k] = line[1]]>>
         \o Tail(line)
    ELSE line

\* C17: lines are classified whatever the case of their prefix: the call
\* ends as it does on the same lines with every option marker in upper case.
C17_CaseInsensitive ==
    Ended =>
        Outcome = parse_quiz(Join([p \in 1..Len(lines) |-> UpperMarker(lines[p])]))

\* the 'Question' line that opened the block line p lies in (0 if none)
OpenedAt(ls, p) ==
    LET before == {q \in QuestionPositions(ls) : q < p}
    IN  IF before = {} THEN 0
        ELSE CHOOSE q \in before : \A r \in before : q >= r

\* C18: the options of the open record are the texts after the 2-character
\* markers of the block's option lines, trimmed, in the order met.
C18_OptionTextKept ==
    (pc = "loop" /\ idx > 1 /\ OpenedAt(lines, idx) > 0) =>
        LET opts == SelectSeq(SubSeq(lines, OpenedAt(lines, idx) + 1, idx - 1),
                              IsOptionLine)
        IN  current_q["options"] = [k \in 1..Len(opts) |-> Strip(Slice(opts[k], 2))]

\* C19: the answer stored for an 'Answer:' line is the lower-cased first
\* letter of the text after the first ':' of the line.
C19_AnswerAfterFirstDelimiter ==
    (pc = "loop" /\ idx > 1 /\ IsAnswerLine(lines[idx - 1])) =>
        current_q["answer"] = SubSeq(Lower(Strip(AfterFirst(lines[idx - 1], ":"))), 1, 1)

\* a line that starts with 'question' and has no ':' after it
QuestionNoDelimiter(line) ==
    StartsWith(Lower(line), QuestionPrefix) /\ SepPositions(line, ":") = {}

\* C20: a 'question' line with a delimiter closes the open record and opens a
\* new one whose question is the trimmed text after the first delimiter; a
\* 'question' line without a delimiter is an 'other' line: the call ends as it
\* does on the same input without such lines.
C20_QuestionNeedsDelimiter ==
    /\ (pc = "loop" /\ idx > 1 /\ IsQuestionLine(lines[idx - 1])
            /\ ~QuestionNoDelimiter(lines[idx - 1])) =>
           current_q = [question |-> Strip(AfterFirst(lines[idx - 1], ":")),
                        options |-> <<>>, answer |-> <<>>]
    /\ Ended =>
           Outcome = parse_quiz(Join(SelectSeq(lines, LAMBDA l : ~QuestionNoDelimiter(l))))

\* the position of an answer letter among the options: a -> 0, ..., d -> 3
AnswerPosition(letter) ==
    CHOOSE j \in 0..(Len(LowerLetters) - 1) : <<LowerLetters[j + 1]>> = letter

\* the questions for which the user selected the option at the answer's position
CorrectByIndex ==
    {i \in 1..Len(quiz) : picked[i] = AnswerPosition(quiz[i]["answer"])}

\* C13: when the results are shown, the score is the number of questions i
\* for which the index (0..3) of the option the user selected for question i
\* equals the position of the question's answer letter.
C13_ScoreComparesIndex ==
    "results" \in shown => score = Cardinality(CorrectByIndex)

\* C14: when generate_quiz has returned an empty list, the page signals it
\* to the user: the run does not end with nothing shown.
C14_EmptyQuizSignalled ==
    (~quiz_is_none /\ quiz = <<>>) => shown # {}

\* C15: one generate_quiz invocation calls the service at most 3 times; each
\* wait follows an attempt that failed with a message containing '429', the
\* k-th wait is 5 * k seconds (5, then 10), every attempt after the first
\* comes right after a wait, and no wait follows the last attempt.
C15_BoundedLinearBackoff ==
    /\ calls <= 3
    /\ Len(waits) <= Len(errors)
    /\ \A k \in 1..Len(waits) :
          /\ Contains(errors[k], <<"4", "2", "9">>)
          /\ waits[k] = 5 * k
    /\ gq_pc = "attempt" => calls = Len(waits)
    /\ (GenEnded /\ calls > 0) => Len(waits) = calls - 1

\* C15 witness: three attempts were rate limited; the waits were 5 and 10.
C15_Witness ==
    /\ gq_pc = "raised"
    /\ calls = 3
    /\ waits = <<5, 10>>

\* the steps generate_quiz has left at most: 0 once it has ended
StepsLeft ==
    IF GenEnded THEN 0
    ELSE IF gq_pc = "attempt" THEN 1 + max_retries - attempt
    ELSE 2 + max_retries

\* C16: every generate_quiz invocation ends (while it has not ended it can
\* take a step, and every step lowers StepsLeft, a natural number), and it
\* ends by returning the list parse_quiz produced from the response or by
\* raising RuntimeError: it never returns None and no other exception type
\* leaves it.
C16_ReturnsListOrRuntimeError ==
    /\ [](~GenEnded => (StepsLeft > 0 /\ ENABLED NextGen))
    /\ [][StepsLeft' < StepsLeft]_vars
    /\ [](GenEnded =>
            \/ /\ gq_pc = "returned"
               /\ Returned(gq_value) = parse_quiz(gq_response)
            \/ /\ gq_pc = "raised"
               /\ gq_exc = "RuntimeError")

\* C16 witness: the service answered and parse_quiz raised; generate_quiz
\* ended with RuntimeError after a single call.
C16_Witness ==
    /\ gq_pc = "raised"
    /\ gq_exc = "RuntimeError"
    /\ parses = 1
    /\ parse_quiz(gq_response).raised = "KeyError"

\* C21: a line with none of the recognized prefixes leaves the results list
\* and the open record as they are and the scan goes on to the next line;
\* the call ends as it does on the same input without such lines.
C21_OtherLineNoEffect ==
    /\ [][(InLoop /\ NoPrefix(lines[idx])) =>
            /\ questions' = questions
            /\ current_q' = current_q
            /\ pc' = "loop"
            /\ idx' = idx + 1]_vars
    /\ [](Ended =>
            Outcome = parse_quiz(Join(SelectSeq(lines, LAMBDA l : ~NoPrefix(l)))))

\* C21 witness: a call has returned a record whose block held a line with
\* none of the prefixes between its option lines.
C21_Witness ==
    /\ pc = "returned"
    /\ result # <<>>
    /\ \E p \in 2..(Len(lines) - 1) :
          /\ NoPrefix(lines[p])
          /\ IsOptionLine(lines[p - 1])
          /\ IsOptionLine(lines[p + 1])

\* C22: in one generate_quiz invocation parse_quiz is called at most once and
\* only on the response of a generation call that returned; the parse step is
\* not retried: once it has run the invocation has ended, and every wait lies
\* before the generation call that returned (one wait per failed call).
C22_ParseOnceNoRetry ==
    /\ parses <= 1
    /\ parses = 1 =>
          /\ GenEnded
          /\ calls >= 1
          /\ Len(waits) = calls - 1
          /\ parse_quiz(gq_response) \in {Returned(gq_value), Raised("KeyError"), Raised("IndexError")}

\* C22 witness: parse_quiz raised on the response of the second generation
\* call, and the invocation ended there.
C22_Witness ==
    /\ gq_pc = "raised"
    /\ parses = 1
    /\ calls = 2
    /\ waits = <<5>>
    /\ parse_quiz(gq_response).raised # "none"

\* C23: parse_quiz calls running concurrently on one QuizGenerator modify no
\* field of it, and under every interleaving each call ends as the call on
\* its argument does when run alone.
C23_ConcurrentCallsIndependent ==
    /\ acc # <<>> => acc[0] = NoLocals
    /\ \A t \in DOMAIN frames :
          FrameEnded(frames[t]) => FrameOutcome(frames[t]) = parse_quiz(frames[t].text)

\* C23 witness: two calls on different arguments have both returned a
\* non-empty list.
C23_Witness ==
    /\ frames # <<>>
    /\ \A t \in Threads : frames[t].pc = "returned" /\ frames[t].result # <<>>
    /\ frames[1].text # frames[2].text

\* C24: in the quiz session the recorded answers stay aligned with the
\* questions after any sequence of 'Next' and 'Previous' clicks: user_answers
\* has current_question entries, and when the results are scored its i-th
\* entry is the option the user selected for question i.
C24_AnswersAligned ==
    QuizTruthy(quiz_is_none, quiz) =>
        /\ Len(user_answers) = current_question
        /\ "results" \in shown =>
              \A i \in 1..Len(quiz) : user_answers[i] = quiz[i]["options"][picked[i] + 1]

\* C25 as stated: current_question stays within 0..len(quiz), 'Previous' is
\* offered only when current_question > 0, 'Next' only when current_question
\* < len(quiz), and once a quiz is stored the results are shown exactly when
\* current_question = len(quiz).
C25_ResultsExactlyAtEnd ==
    /\ current_question \in 0..Len(quiz)
    /\ "previous" \in shown => current_question > 0
    /\ "next" \in shown => current_question < Len(quiz)
    /\ ~quiz_is_none => ("results" \in shown <=> current_question = Len(quiz))

\* C25 amended: as above, with the results shown exactly when
\* current_question = len(quiz) for a non-empty stored quiz; while the stored
\* quiz is None or empty neither a question nor the results are shown.
C25_PositionInRange ==
    /\ current_question \in 0..Len(quiz)
    /\ "previous" \in shown => current_question > 0
    /\ "next" \in shown => current_question < Len(quiz)
    /\ QuizTruthy(quiz_is_none, quiz) =>
          /\ "results" \in shown <=> current_question = Len(quiz)
          /\ "question" \in shown <=> current_question < Len(quiz)
    /\ ~QuizTruthy(quiz_is_none, quiz) =>
          /\ current_question = 0
          /\ shown \cap {"question", "next", "previous", "results"} = {}

\* C25 witness: the results of a two-question quiz are shown after the user
\* went back at least once.
C25_Witness ==
    /\ "results" \in shown
    /\ Len(quiz) = 2
    /\ current_question = 2
    /\ Len(user_answers) > 2

\* C26: a run started by 'Generate Quiz' either stores the list generate_quiz
\* returned, with current_question 0 and user_answers empty, and shows no
\* error; or, extraction or generate_quiz having raised, leaves the stored
\* quiz, current_question and user_answers as they were and shows the error.
C26_GenerateReplacesOrKeeps ==
    [][clicked' = "generate" =>
          \/ /\ "error" \notin shown'
             /\ quiz_is_none' = FALSE
             /\ quiz' \in QuizLists
             /\ current_question' = 0
             /\ user_answers' = <<>>
          \/ /\ "error" \in shown'
             /\ UNCHANGED <<quiz_is_none, quiz, current_question, user_answers>>]_vars

\* C26 witness: 'Generate Quiz' failed while the user was at the second
\* question of a stored quiz, which is still there with its answer.
C26_Witness ==
    /\ clicked = "generate"
    /\ "error" \in shown
    /\ Len(quiz) = 2
    /\ current_question = 1
    /\ Len(user_answers) = 1

\* C27: the results are shown only for a stored quiz that is not empty and
\* whose records all have 4 options and an answer letter among a-d, so the
\* division by len(quiz) and the review's subscript ord(answer) - 97, which
\* lies in 0..3, raise nothing.
C27_ResultsOnlyForValidQuiz ==
    /\ shown \cap {"ZeroDivisionError", "TypeError", "IndexError"} = {}
    /\ "results" \in shown =>
          /\ Len(quiz) > 0
          /\ \A i \in 1..Len(quiz) :
                /\ ValidRecord(quiz[i])
                /\ review_index(quiz[i]["answer"]) \in 0..3
                /\ review_index(quiz[i]["answer"]) < Len(quiz[i]["options"])

\* C27 witness: the results of a two-question quiz are shown with both
\* questions answered, so both records are reviewed.
C27_Witness ==
    /\ "results" \in shown
    /\ Len(quiz) = 2
    /\ Len(user_answers) = 2

IsYouTube(link) == link["type"] = "youtube"

\* _combine_links has run in the get_answer call
LinksCombined == qa_pc = "answer" \/ (qa_pc = "returned" /\ "search" \notin qa_failed)

\* C28: _combine_links returns at most 5 links, every 'youtube' link before
\* every link of another type, the links of each type in the order of
\* yt_links + web_links; 3 YouTube and 3 web links give the 3 YouTube links
\* and then the first 2 web links.
C28_CombineLinksOrder ==
    LinksCombined =>
        LET given == yt_links \o web_links
            videos == SelectSeq(all_links, IsYouTube)
            others == SelectSeq(all_links, LAMBDA l : ~IsYouTube(l))
        IN  /\ Len(all_links) <= 5
            /\ \A i, j \in DOMAIN all_links :
                  (IsYouTube(all_links[j]) /\ ~IsYouTube(all_links[i])) => j < i
            /\ videos = SubSeq(SelectSeq(given, IsYouTube), 1, Len(videos))
            /\ others = SubSeq(SelectSeq(given, LAMBDA l : ~IsYouTube(l)), 1, Len(others))
            /\ (Len(yt_links) = 3 /\ Len(web_links) = 3) =>
                  all_links = yt_links \o SubSeq(web_links, 1, 2)

\* C28 witness: _combine_links was given 3 YouTube and 3 web links and
\* returned 5.
C28_Witness ==
    /\ qa_pc = "answer"
    /\ Len(yt_links) = 3
    /\ Len(web_links) = 3
    /\ Len(all_links) = 5

\* C29: _process_docs changes vector_store and processed_files together:
\* the index is rebuilt only for a set of names other than processed_files,
\* a run that failed or did nothing leaves both as they were, and
\* processed_files is non-empty only while vector_store holds the index built
\* from the files of these names (both start empty).
C29_IndexMatchesProcessedFiles ==
    /\ [](/\ processed_files # {} => vector_store = <<processed_files>>
          /\ vector_store = <<>> => processed_files = {})
    /\ [][/\ doc_status' = "processed" =>
                /\ processed_files' # processed_files
                /\ processed_files' = uploaded'
                /\ vector_store' = <<uploaded'>>
          /\ doc_status' # "processed" => UNCHANGED <<vector_store, processed_files>>]_vars

\* C29 witness: after an index was built for one set of files, processing
\* another set failed at the indexing stage and the first index is kept.
C29_Witness ==
    /\ doc_status = "create_vector_store"
    /\ processed_files # {}
    /\ uploaded # processed_files
    /\ vector_store = <<processed_files>>

\* C30: get_answer never raises: whichever of its steps failed, no exception
\* leaves it, and it returns (error message, 'error', []) when the vector
\* search failed;
\* otherwise its source is 'combined' and its links are the combined links,
\* where a failed YouTube or web search counts as an empty list and the other
\* source's links are still used, and its text is 'Failed to generate
\* answer' exactly when the answer generation failed.
C30_GetAnswerNeverRaises ==
    /\ qa_pc # "raised"
    /\ qa_pc = "returned" =>
          IF "search" \in qa_failed
          THEN qa_result = [answer |-> "Error processing query", source |-> "error", links |-> <<>>]
          ELSE /\ qa_result.source = "combined"
               /\ qa_result.links = all_links
               /\ "youtube" \in qa_failed =>
                     (yt_links = <<>> /\ qa_result.links = SubSeq(web_links, 1, Len(web_links)))
               /\ "web" \in qa_failed =>
                     (web_links = <<>> /\ qa_result.links = SubSeq(yt_links, 1, Len(yt_links)))
               /\ "answer" \in qa_failed <=> qa_result.answer = "Failed to generate answer"

\* C30 witness: the YouTube search and the answer generation failed and the
\* call returned the web links with the failure text.
C30_Witness ==
    /\ qa_pc = "returned"
    /\ qa_failed = {"youtube", "answer"}
    /\ qa_result.source = "combined"
    /\ Len(qa_result.links) = 3

====
